---- MODULE Spec2Model ----
(***************************************************************************)
(* Model of make-image-transparent (src/main.go): the colour matcher, the  *)
(* transparency transform over Go's image / image/draw types, format       *)
(* resolution, the base64 data-URI decoder and the pipeline driver main(). *)
(***************************************************************************)
EXTENDS Integers, Sequences, FiniteSets, TLC

VARIABLES
    pc,                 \* position of the running operation
    args,               \* os.Args[1:], each argument a sequence of characters
    fileName,           \* main: fileName
    fileNameNoExt,      \* main: fileNameNoExt
    imageType,          \* main: imageType
    pipeThroughBase64,  \* main: pipeThroughBase64
    imageData,          \* main: *imageData, the decoded image.Image
    ok,                 \* first result of makeBackgroundTransparent
    imageRGBA,          \* second result of makeBackgroundTransparent
    again,              \* makeBackgroundTransparent applied to its own result
    fs,                 \* the file system: files and directories
    fs0,                \* the file system when the process started
    fsLog,              \* system calls on files, in order
    stderr,             \* diagnostics written to os.Stderr, in order
    exitCode,           \* process exit status, NoExit while running
    stages,             \* pipeline stages entered, in order
    colorA, colorB,     \* sameColor: the two colours
    same,               \* sameColor: the result
    data,               \* decodeImageFromBase64: the buffer data
    handed              \* decodeImageFromBase64: bytes given to the image codec

vars == <<pc, args, fileName, fileNameNoExt, imageType, pipeThroughBase64,
          imageData, ok, imageRGBA, again, fs, fs0, fsLog, stderr, exitCode,
          stages, colorA, colorB, same, data, handed>>

pipeVars  == <<args, fileName, fileNameNoExt, imageType, pipeThroughBase64,
               fs, fs0, fsLog, stderr, exitCode, stages>>
imageVars == <<imageData, ok, imageRGBA, again>>
colorVars == <<colorA, colorB, same>>
b64Vars   == <<data, handed>>

Max(a, b) == IF a > b THEN a ELSE b
Min(a, b) == IF a < b THEN a ELSE b

(***************************************************************************)
(* Colour matcher (main.go 212-235).  A color.RGBA has 8-bit fields.       *)
(***************************************************************************)
\* a mutant of uint8Diff: the subtraction without the ordering test wraps
uint8DiffWrapping(a, b) == (a - b) % 256

uint8Diff(a, b) ==
    IF a > b THEN (a - b) % 256 ELSE (b - a) % 256

colorTolerance == 110
colorToleranceUniform == 100

sameColor(a, b) ==
    LET dR == uint8Diff(a.R, b.R)
        dG == uint8Diff(a.G, b.G)
        dB == uint8Diff(a.B, b.B)
        t  == IF dR = dG /\ dG = dB THEN colorToleranceUniform ELSE colorTolerance
    IN  dR <= t /\ dG <= t /\ dB <= t

(***************************************************************************)
(* Go's image package, as far as makeBackgroundTransparent uses it.        *)
(* An image.Image has a Bounds rectangle (Min need not be (0,0)) and, per  *)
(* point of it, a colour whose RGBA() gives 16-bit alpha-premultiplied     *)
(* channels.  An *image.RGBA stores 8-bit channels per point of its Rect.  *)
(***************************************************************************)
Rectangle(x0, y0, x1, y1) == [x0 |-> x0, y0 |-> y0, x1 |-> x1, y1 |-> y1]
ZR == Rectangle(0, 0, 0, 0)
ZP == <<0, 0>>
Dx(r) == r.x1 - r.x0
Dy(r) == r.y1 - r.y0
Empty(r) == r.x0 >= r.x1 \/ r.y0 >= r.y1
Points(r) == {<<x, y>> : x \in r.x0 .. (r.x1 - 1), y \in r.y0 .. (r.y1 - 1)}
RectAdd(r, p) == Rectangle(r.x0 + p[1], r.y0 + p[2], r.x1 + p[1], r.y1 + p[2])
Intersect(r, s) ==
    LET t == Rectangle(Max(r.x0, s.x0), Max(r.y0, s.y0),
                       Min(r.x1, s.x1), Min(r.y1, s.y1))
    IN  IF Empty(t) THEN ZR ELSE t

Color(r, g, b, a) == [R |-> r, G |-> g, B |-> b, A |-> a]
ZeroColor == Color(0, 0, 0, 0)

\* color.RGBA.RGBA(): each 8-bit channel v becomes v | v<<8
RGBA16(c) == Color(c.R * 257, c.G * 257, c.B * 257, c.A * 257)

\* draw's store into an *image.RGBA: uint8(channel >> 8)
RGBA8(c) == Color(c.R \div 256, c.G \div 256, c.B \div 256, c.A \div 256)

NilImage == [nil |-> TRUE]

\* image.NewRGBA(r): every pixel zero
NewRGBA(r) == [Rect |-> r, Pix |-> [p \in Points(r) |-> ZeroColor]]

\* an *image.RGBA seen through the image.Image interface
AsImage(m) == [Rect |-> m.Rect, At |-> [p \in Points(m.Rect) |-> RGBA16(m.Pix[p])]]

\* draw.Draw(dst, r, src, sp, draw.Src): r is clipped to dst's bounds and to
\* src's bounds moved by r.Min - sp; dst point p then takes src point
\* sp + (p - r.Min).  Points of dst outside the clipped r keep their value.
Draw(dst, r, src, sp) ==
    LET orig == <<r.x0, r.y0>>
        r1 == Intersect(r, dst.Rect)
        r2 == Intersect(r1, RectAdd(src.Rect, <<orig[1] - sp[1], orig[2] - sp[2]>>))
    IN  [dst EXCEPT !.Pix =
            [p \in Points(dst.Rect) |->
                IF p \in Points(r2)
                THEN RGBA8(src.At[<<sp[1] + p[1] - orig[1], sp[2] + p[2] - orig[2]>>])
                ELSE dst.Pix[p]]]

\* a mutant of Opaque: any image counts as opaque
OpaqueAlways(m) == TRUE

\* (*image.RGBA).Opaque(): an empty image is opaque
Opaque(m) == Empty(m.Rect) \/ \A p \in Points(m.Rect) : m.Pix[p].A = 255

\* (*image.RGBA).RGBAAt(x, y): the zero colour outside Rect
RGBAAt(m, x, y) == IF <<x, y>> \in Points(m.Rect) THEN m.Pix[<<x, y>>] ELSE ZeroColor

\* a mutant of SetRGBA: the changed colour is not stored back
SetRGBANoStore(m, x, y, c) == m

\* (*image.RGBA).SetRGBA(x, y, c): nothing outside Rect
SetRGBA(m, x, y, c) ==
    IF <<x, y>> \in Points(m.Rect) THEN [m EXCEPT !.Pix[<<x, y>>] = c] ELSE m

(***************************************************************************)
(* Transparency transform (main.go 237-258).                               *)
(***************************************************************************)
\* the two nested loops of lines 246-254, iteration k visiting
\* x = k \div height, y = k % height
RECURSIVE PixelLoop(_, _, _, _, _)
PixelLoop(m, backgroundColor, width, height, k) ==
    IF k >= width * height THEN m
    ELSE LET x == k \div height
             y == k % height
             color == RGBAAt(m, x, y)
             m2 == IF sameColor(color, backgroundColor)
                   THEN SetRGBA(m, x, y, [color EXCEPT !.A = 0])
                   ELSE m
         IN  PixelLoop(m2, backgroundColor, width, height, k + 1)

makeBackgroundTransparent(img) ==
    LET new == NewRGBA(img.Rect)
        rgba == Draw(new, img.Rect, img, ZP)
    IN  IF Opaque(rgba)
        THEN [ok |-> TRUE,
              imageRGBA |-> PixelLoop(rgba, RGBAAt(rgba, 0, 0),
                                      Dx(rgba.Rect), Dy(rgba.Rect), 0)]
        ELSE [ok |-> FALSE, imageRGBA |-> NilImage]

(***************************************************************************)
(* Input images of the bounded model.                                      *)
(***************************************************************************)
\* the largest number of pixels of an input image
MaxPixels == 4

\* Bounds().Min of a decoded image: (0,0), or a frame offset as gif.Decode
\* gives for a first frame placed inside the logical screen
Offsets == {<<0, 0>>, <<1, 0>>, <<0, 1>>}

\* 16-bit alpha-premultiplied colours a decoder can deliver
Grey16     == Color(51400, 51400, 51400, 65535)   \* 8-bit (200,200,200,255)
DarkGrey16 == Color(25700, 25700, 25700, 65535)   \* 8-bit (100,100,100,255)
Teal16     == Color(22873, 51400, 51400, 65535)   \* 8-bit ( 89,200,200,255)
Half16     == Color(25700, 25700, 25700, 32896)   \* alpha 0x8080
Deep16     == Color(51400, 51400, 51400, 65520)   \* alpha 0xFFF0, 16-bit source
Palette16  == {Grey16, DarkGrey16, Teal16, Half16, Deep16}

ImagesOn(r) == {[Rect |-> r, At |-> f] : f \in [Points(r) -> Palette16]}

Sizes == {<<w, h>> \in (0 .. MaxPixels) \X (0 .. MaxPixels) : w * h <= MaxPixels}

Images ==
    UNION {ImagesOn(Rectangle(o[1], o[2], o[1] + s[1], o[2] + s[2])) :
           o \in Offsets, s \in Sizes}

NoExit == <<>>
IdleColor == ZeroColor

PipeIdle ==
    /\ args = <<>>
    /\ fileName = <<>>
    /\ fileNameNoExt = <<>>
    /\ imageType = "unset"
    /\ pipeThroughBase64 = FALSE
    /\ fs = [files |-> [q \in {} |-> 0], dirs |-> {}]
    /\ fs0 = fs
    /\ fsLog = <<>>
    /\ stderr = <<>>
    /\ exitCode = NoExit
    /\ stages = <<>>

ImageIdle ==
    /\ imageData = NilImage
    /\ ok = FALSE
    /\ imageRGBA = NilImage
    /\ again = [ok |-> FALSE, imageRGBA |-> NilImage]

ColorIdle ==
    /\ colorA = IdleColor
    /\ colorB = IdleColor
    /\ same = FALSE

B64Idle ==
    /\ data = <<>>
    /\ handed = <<>>

(***************************************************************************)
(* Specification of the colour matcher alone.                              *)
(***************************************************************************)
ChannelsA == {0, 1, 100, 101, 110, 111, 255}
ChannelsB == {0, 1, 255}
Alphas    == {0, 255}

InitColor ==
    /\ pc = "sameColor"
    /\ colorA \in {Color(r, g, b, a) : r \in ChannelsA, g \in ChannelsA,
                                       b \in ChannelsA, a \in Alphas}
    /\ colorB \in {Color(r, g, b, a) : r \in ChannelsB, g \in ChannelsB,
                                       b \in ChannelsB, a \in Alphas}
    /\ same = FALSE
    /\ PipeIdle /\ ImageIdle /\ B64Idle

CompareColors ==
    /\ pc = "sameColor"
    /\ same' = sameColor(colorA, colorB)
    /\ pc' = "compared"
    /\ UNCHANGED <<colorA, colorB, pipeVars, imageVars, b64Vars>>

NextColor == CompareColors

SpecColor == InitColor /\ [][NextColor]_vars

(***************************************************************************)
(* Specification of the transform alone: apply it, then apply it again to  *)
(* the image it returned.                                                  *)
(***************************************************************************)
InitTransform ==
    /\ pc = "transform"
    /\ imageData \in Images
    /\ ok = FALSE
    /\ imageRGBA = NilImage
    /\ again = [ok |-> FALSE, imageRGBA |-> NilImage]
    /\ PipeIdle /\ ColorIdle /\ B64Idle

ApplyTransform ==
    /\ pc = "transform"
    /\ LET res == makeBackgroundTransparent(imageData)
       IN  /\ ok' = res.ok
           /\ imageRGBA' = res.imageRGBA
    /\ pc' = "transformed"
    /\ UNCHANGED <<imageData, again, pipeVars, colorVars, b64Vars>>

ApplyAgain ==
    /\ pc = "transformed"
    /\ ok
    /\ again' = makeBackgroundTransparent(AsImage(imageRGBA))
    /\ pc' = "reapplied"
    /\ UNCHANGED <<imageData, ok, imageRGBA, pipeVars, colorVars, b64Vars>>

NextTransform == ApplyTransform \/ ApplyAgain

SpecTransform == InitTransform /\ [][NextTransform]_vars

(***************************************************************************)
(* Strings are sequences of one-character strings; bytes are 0 .. 255.     *)
(***************************************************************************)
Letters  == <<"a", "b", "c", "d", "e", "f", "g", "h", "i", "j", "k", "l", "m",
              "n", "o", "p", "q", "r", "s", "t", "u", "v", "w", "x", "y", "z">>
Capitals == <<"A", "B", "C", "D", "E", "F", "G", "H", "I", "J", "K", "L", "M",
              "N", "O", "P", "Q", "R", "S", "T", "U", "V", "W", "X", "Y", "Z">>
Digits   == <<"0", "1", "2", "3", "4", "5", "6", "7", "8", "9">>

Range(s) == {s[i] : i \in DOMAIN s}
IndexIn(s, c) == CHOOSE i \in DOMAIN s : s[i] = c

\* strings.ToLower on the ASCII letters
ToLowerChar(c) == IF c \in Range(Capitals) THEN Letters[IndexIn(Capitals, c)] ELSE c
ToLower(s) == [i \in DOMAIN s |-> ToLowerChar(s[i])]

\* []byte(s) for the characters the data URI is written in
Ascii(c) ==
    IF c \in Range(Letters) THEN 96 + IndexIn(Letters, c)
    ELSE IF c \in Range(Capitals) THEN 64 + IndexIn(Capitals, c)
    ELSE IF c \in Range(Digits) THEN 47 + IndexIn(Digits, c)
    ELSE CASE c = ":" -> 58 [] c = ";" -> 59 [] c = "," -> 44 [] c = "/" -> 47
           [] c = "+" -> 43 [] c = "=" -> 61 [] c = "!" -> 33 [] c = "." -> 46
           [] c = "_" -> 95
Bytes(s) == [i \in DOMAIN s |-> Ascii(s[i])]

\* s[from:] with from counted from 0 as in Go
SliceFrom(s, from) == SubSeq(s, from + 1, Len(s))

\* bytes.Index(s, sep): the first 0-based index of sep in s, -1 if absent
BytesIndex(s, sep) ==
    LET hits == {i \in 0 .. (Len(s) - Len(sep)) : SubSeq(s, i + 1, i + Len(sep)) = sep}
    IN  IF hits = {} THEN -1 ELSE CHOOSE i \in hits : \A j \in hits : i <= j

(***************************************************************************)
(* Format resolution (main.go 55-74 and 275-277).                          *)
(***************************************************************************)
\* filepath.Ext: the suffix from the last dot of the last path element,
\* scanning back from the end and stopping at a path separator
RECURSIVE ExtScan(_, _)
ExtScan(path, i) ==
    IF i < 1 \/ path[i] = "/" THEN <<>>
    ELSE IF path[i] = "." THEN SubSeq(path, i, Len(path))
    ELSE ExtScan(path, i - 1)
Ext(path) == ExtScan(path, Len(path))

getImageType(fileExt) ==
    LET e == ToLower(fileExt)
    IN  CASE e = <<"j", "p", "g">> -> "jpeg"
          [] e = <<"j", "p", "e", "g">> -> "jpeg"
          [] e = <<"p", "n", "g">> -> "png"
          [] e = <<"b", "m", "p">> -> "bmp"
          [] e = <<"t", "i", "f", "f">> -> "tiff"
          [] e = <<"g", "i", "f">> -> "gif"
          [] e = <<"w", "e", "b", "p">> -> "webp"
          [] OTHER -> "unsupported"

Formats == {"jpeg", "png", "bmp", "tiff", "gif", "webp"}

\* strconv.ParseBool
ParseBool(s) ==
    IF s \in {<<"1">>, <<"t">>, <<"T">>, <<"T", "R", "U", "E">>,
              <<"t", "r", "u", "e">>, <<"T", "r", "u", "e">>}
    THEN [err |-> FALSE, value |-> TRUE]
    ELSE IF s \in {<<"0">>, <<"f">>, <<"F">>, <<"F", "A", "L", "S", "E">>,
                   <<"f", "a", "l", "s", "e">>, <<"F", "a", "l", "s", "e">>}
    THEN [err |-> FALSE, value |-> FALSE]
    ELSE [err |-> TRUE, value |-> FALSE]

(***************************************************************************)
(* encoding/base64, StdEncoding, over byte sequences.                      *)
(***************************************************************************)
PadChar == Ascii("=")
Pow2(k) == 2 ^ k

\* Encoding.decodeMap: the 6-bit value of an alphabet byte, 255 otherwise
DecodeMap(b) ==
    IF b >= 65 /\ b <= 90 THEN b - 65
    ELSE IF b >= 97 /\ b <= 122 THEN b - 71
    ELSE IF b >= 48 /\ b <= 57 THEN b + 4
    ELSE IF b = 43 THEN 62
    ELSE IF b = 47 THEN 63
    ELSE 255

\* the alphabet byte of a 6-bit value
EncodeMap(v) ==
    IF v < 26 THEN 65 + v
    ELSE IF v < 52 THEN 71 + v
    ELSE IF v < 62 THEN v - 4
    ELSE IF v = 62 THEN 43 ELSE 47

\* base64.StdEncoding.EncodeToString: bit t of the input is bit (7 - t % 8)
\* of byte t \div 8; output character k carries bits 6k .. 6k+5, zero filled
BitOfBytes(b, t) ==
    IF t \div 8 < Len(b) THEN (b[(t \div 8) + 1] \div Pow2(7 - (t % 8))) % 2 ELSE 0
SixBits(b, k) ==
    BitOfBytes(b, 6 * k) * 32 + BitOfBytes(b, 6 * k + 1) * 16
    + BitOfBytes(b, 6 * k + 2) * 8 + BitOfBytes(b, 6 * k + 3) * 4
    + BitOfBytes(b, 6 * k + 4) * 2 + BitOfBytes(b, 6 * k + 5)
EncodeToString(b) ==
    LET groups == (Len(b) + 2) \div 3
        chars  == (8 * Len(b) + 5) \div 6
    IN  [i \in 1 .. (4 * groups) |->
            IF i <= chars THEN EncodeMap(SixBits(b, i - 1)) ELSE PadChar]

\* Encoding.decodeQuantum(dst[n:], src, si) with dst = buf and
\* src = buf[off:], both the same storage: up to four characters are read
\* from buf at off+si, then up to three bytes are stored into buf at n.
\* Line breaks, which the decoder skips, are not among the model's bytes.
DecodeQuantum(buf, off, si, n) ==
    LET srcLen == Len(buf) - off
        in(j)  == buf[off + si + j + 1]
        isVal(j) == si + j < srcLen /\ DecodeMap(in(j)) # 255
        \* j: the number of alphabet characters read before the loop leaves
        j == IF ~isVal(0) THEN 0 ELSE IF ~isVal(1) THEN 1
             ELSE IF ~isVal(2) THEN 2 ELSE IF ~isVal(3) THEN 3 ELSE 4
        d(i) == IF i < j THEN DecodeMap(in(i)) ELSE 0
        val == d(0) * 262144 + d(1) * 4096 + d(2) * 64 + d(3)
        b0 == (val \div 65536) % 256
        b1 == (val \div 256) % 256
        b2 == val % 256
        store(dlen) ==
            [i \in DOMAIN buf |->
                IF i = n + 1 /\ dlen >= 2 THEN b0
                ELSE IF i = n + 2 /\ dlen >= 3 THEN b1
                ELSE IF i = n + 3 /\ dlen >= 4 THEN b2
                ELSE buf[i]]
        fail(at) == [buf |-> buf, si |-> at, n |-> 0, err |-> TRUE]
    IN  IF j = 4 THEN [buf |-> store(4), si |-> si + 4, n |-> 3, err |-> FALSE]
        ELSE IF si + j = srcLen
             THEN \* the source ends inside a quantum
                  IF j = 0 THEN [buf |-> buf, si |-> si, n |-> 0, err |-> FALSE]
                  ELSE fail(si + j)
        ELSE IF in(j) # PadChar THEN fail(si + j + 1)
        ELSE IF j < 2 THEN fail(si + j + 1)
        ELSE IF j = 2 /\ (si + 3 >= srcLen \/ in(3) # PadChar) THEN fail(si + 3)
        ELSE \* padding read; anything after it is trailing garbage
             [buf |-> store(j), si |-> si + 4, n |-> j - 1,
              err |-> si + 4 < srcLen]

\* Encoding.Decode(buf, buf[off:]): quanta until the source is used up or
\* one fails; n counts the bytes stored
RECURSIVE DecodeLoop(_, _, _, _)
DecodeLoop(buf, off, si, n) ==
    IF si >= Len(buf) - off THEN [buf |-> buf, n |-> n, err |-> FALSE]
    ELSE LET q == DecodeQuantum(buf, off, si, n)
         IN  IF q.err THEN [buf |-> q.buf, n |-> n + q.n, err |-> TRUE]
             ELSE DecodeLoop(q.buf, off, q.si, n + q.n)

\* bytes.Index(data, prefix) == 0
HasPrefix(s, prefix) == Len(s) >= Len(prefix) /\ SubSeq(s, 1, Len(prefix)) = prefix

DataImage == <<"d", "a", "t", "a", ":", "i", "m", "a", "g", "e", "/">>
Base64Marker == <<"b", "a", "s", "e", "6", "4", ",">>
TypeString(t) ==
    CASE t = "jpeg" -> <<"j", "p", "e", "g">>
      [] t = "png"  -> <<"p", "n", "g">>
      [] t = "bmp"  -> <<"b", "m", "p">>
      [] t = "tiff" -> <<"t", "i", "f", "f">>
      [] t = "gif"  -> <<"g", "i", "f">>
      [] t = "webp" -> <<"w", "e", "b", "p">>

\* the switch of main.go 159-174
DetectType(buf) ==
    IF HasPrefix(buf, Bytes(DataImage \o TypeString("jpeg"))) THEN "jpeg"
    ELSE IF HasPrefix(buf, Bytes(DataImage \o TypeString("png"))) THEN "png"
    ELSE IF HasPrefix(buf, Bytes(DataImage \o TypeString("bmp"))) THEN "bmp"
    ELSE IF HasPrefix(buf, Bytes(DataImage \o TypeString("tiff"))) THEN "tiff"
    ELSE IF HasPrefix(buf, Bytes(DataImage \o TypeString("gif"))) THEN "gif"
    ELSE IF HasPrefix(buf, Bytes(DataImage \o TypeString("webp"))) THEN "webp"
    ELSE "unsupported"

\* main.go 176-182: the payload after the first marker is decoded into data
\* itself; the count of decoded bytes that Decode returns is dropped, so
\* data keeps its length
DecodeInPlace(buf) ==
    LET search == Bytes(Base64Marker)
        idx == BytesIndex(buf, search)
    IN  IF idx > -1
        THEN DecodeLoop(buf, idx + Len(search), 0, 0)
        ELSE [buf |-> buf, n |-> 0, err |-> FALSE]

\* Decode's 8- and 4-byte stores (Go releases with the wide-store fast path)
\* leave up to two zero bytes after the last decoded byte, other releases
\* none: the bytes after the decoded ones depend on the build
WithSlack(buf, n, k) ==
    [i \in DOMAIN buf |-> IF i > n /\ i <= n + k THEN 0 ELSE buf[i]]
Slacks(r) == IF r.n > 0 THEN {0, 1, 2} ELSE {0}

(***************************************************************************)
(* Specification of the data-URI decoder alone (main.go 157-186): any      *)
(* buffer of the bounded set is given to decodeImageFromBase64, which      *)
(* runs up to the creation of the codec's input, bytes.NewBuffer(data).    *)
(***************************************************************************)
\* the longest payload after the header
MaxPayload == 8

PayloadBytes == {Ascii("/"), Ascii("Q"), PadChar}

RECURSIVE ByteSeqs(_)
ByteSeqs(len) ==
    IF len = 0 THEN {<<>>}
    ELSE LET shorter == ByteSeqs(len - 1)
         IN  shorter \cup {Append(q, b) : q \in {t \in shorter : Len(t) = len - 1},
                                          b \in PayloadBytes}

Headers ==
    {Bytes(DataImage \o TypeString("png") \o <<";">> \o Base64Marker),
     Bytes(DataImage \o TypeString("webp") \o <<";">> \o Base64Marker),
     Bytes(Base64Marker \o Base64Marker),
     Bytes(DataImage \o TypeString("gif") \o <<";">>)}

DataURIs == {h \o q : h \in Headers, q \in ByteSeqs(MaxPayload)}

\* logAndExit (main.go 24-31): one diagnostic, then os.Exit(-1), status 255
logAndExit(msg) ==
    /\ stderr' = Append(stderr, msg)
    /\ exitCode' = <<255>>
    /\ pc' = "exited"

\* the run goes on at position next
GoOn(next) ==
    /\ pc' = next
    /\ UNCHANGED <<stderr, exitCode>>

InitB64 ==
    /\ pc = "decode64"
    /\ data \in DataURIs
    /\ handed = <<>>
    /\ PipeIdle /\ ImageIdle /\ ColorIdle

DecodeDataURI ==
    /\ pc = "decode64"
    /\ imageType' = DetectType(data)
    /\ LET r == DecodeInPlace(data)
       IN  IF r.err
           THEN /\ logAndExit("error when decoding image from base64")
                /\ handed' = <<>>
           ELSE /\ \E k \in Slacks(r) : handed' = WithSlack(r.buf, r.n, k)
                /\ GoOn("codec")
    /\ UNCHANGED <<data, args, fileName, fileNameNoExt, pipeThroughBase64,
                   fs, fs0, fsLog, stages, imageVars, colorVars>>

NextB64 == DecodeDataURI

SpecB64 == InitB64 /\ [][NextB64]_vars

\* the standard base64 decoding of a text, from the encoder's alphabet:
\* four characters per group, one or two trailing pad characters only in
\* the last group, six bits per character, eight per byte
IsStd(b) == \E v \in 0 .. 63 : EncodeMap(v) = b
StdValue(b) == CHOOSE v \in 0 .. 63 : EncodeMap(v) = b
PadCount(t) ==
    IF Len(t) >= 1 /\ t[Len(t)] = PadChar
    THEN IF Len(t) >= 2 /\ t[Len(t) - 1] = PadChar THEN 2 ELSE 1
    ELSE 0
WellFormed(t) ==
    /\ Len(t) % 4 = 0
    /\ \A i \in 1 .. (Len(t) - PadCount(t)) : IsStd(t[i])
BitOfText(t, k) == (StdValue(t[(k \div 6) + 1]) \div Pow2(5 - (k % 6))) % 2
StdDecoding(t) ==
    [i \in 1 .. (3 * (Len(t) \div 4) - PadCount(t)) |->
        LET k == 8 * (i - 1)
        IN  BitOfText(t, k) * 128 + BitOfText(t, k + 1) * 64
            + BitOfText(t, k + 2) * 32 + BitOfText(t, k + 3) * 16
            + BitOfText(t, k + 4) * 8 + BitOfText(t, k + 5) * 4
            + BitOfText(t, k + 6) * 2 + BitOfText(t, k + 7)]

HasMarker(buf) == BytesIndex(buf, Bytes(Base64Marker)) > -1
AfterMarker(buf) ==
    SliceFrom(buf, BytesIndex(buf, Bytes(Base64Marker)) + Len(Base64Marker))

\* C10: for a buffer holding the marker, the bytes handed to the codec are
\* the standard base64 decoding of the text after the first marker, with
\* nothing before or after them, and a malformed text ends in the base64
\* decode failure.
C10_HandedBytesAreStandardDecoding ==
    (pc \in {"codec", "exited"} /\ HasMarker(data)) =>
        IF WellFormed(AfterMarker(data))
        THEN pc = "codec" /\ handed = StdDecoding(AfterMarker(data))
        ELSE pc = "exited" /\ stderr = <<"error when decoding image from base64">>

\* what the code does establish: the decoded bytes are the first bytes of
\* the buffer handed on, which keeps the length of the whole data URI
DecodedBytesLeadTheBuffer ==
    (pc \in {"codec", "exited"} /\ HasMarker(data)) =>
        IF WellFormed(AfterMarker(data))
        THEN /\ pc = "codec"
             /\ Len(handed) = Len(data)
             /\ SubSeq(handed, 1, Len(StdDecoding(AfterMarker(data))))
                    = StdDecoding(AfterMarker(data))
        ELSE pc = "exited" /\ stderr = <<"error when decoding image from base64">>

(***************************************************************************)
(* The file system and the codecs, as far as main() uses them.             *)
(* A file holds an encoded stream, [format, image], garbage, or nothing.   *)
(***************************************************************************)
RECURSIVE LastSlash(_, _)
LastSlash(path, i) ==
    IF i < 1 THEN 0 ELSE IF path[i] = "/" THEN i ELSE LastSlash(path, i - 1)
\* the directory of a path, <<>> being the working directory
Dir(path) ==
    LET i == LastSlash(path, Len(path))
    IN  IF i = 0 THEN <<>> ELSE SubSeq(path, 1, i - 1)
\* the last element of a path
Base(path) == SubSeq(path, LastSlash(path, Len(path)) + 1, Len(path))

Garbage   == [format |-> "garbage", image |-> NilImage]
EmptyFile == [format |-> "empty", image |-> NilImage]
OldFile   == [format |-> "old", image |-> NilImage]

FileExists(f, path) == path \in DOMAIN f.files
WithFile(f, path, content) ==
    [f EXCEPT !.files = [q \in DOMAIN f.files \cup {path} |->
                            IF q = path THEN content ELSE f.files[q]]]
WithoutFile(f, path) ==
    [f EXCEPT !.files = [q \in DOMAIN f.files \ {path} |-> f.files[q]]]

Sys(op, path) == [op |-> op, path |-> path]

\* the image moved so that its bounds start at (0,0), as an encoder
\* followed by a decoder leaves it
Normalize(m) ==
    LET r == Rectangle(0, 0, Dx(m.Rect), Dy(m.Rect))
    IN  [Rect |-> r,
         At |-> [q \in Points(r) |-> m.At[<<q[1] + m.Rect.x0, q[2] + m.Rect.y0>>]]]

\* jpeg.Decode, bmp.Decode, tiff.Decode, gif.Decode and webp.Decode accept
\* their own format; image.Decode (the PNG case of lines 103-104 and
\* 190-191, and line 202) sniffs every format registered by the imports
Decodes(type, format) ==
    \/ type \in Formats /\ type # "png" /\ format = type
    \/ type \in {"png", "unsupported"} /\ format \in Formats

\* the leading bytes of an encoded stream, standing for the stream
Signature(format) ==
    CASE format = "jpeg" -> <<255, 216, 255>>
      [] format = "png"  -> <<137, 80, 78>>
      [] format = "bmp"  -> <<66, 77, 54>>
      [] format = "tiff" -> <<73, 73, 42>>
      [] format = "gif"  -> <<71, 73, 70>>
      [] format = "webp" -> <<82, 73, 70>>
SniffedFormats(buf) == {f \in Formats : HasPrefix(buf, Signature(f))}

\* a mutant of HasEncoder: webp is given a base64 encoder too
HasEncoderAll(type) == type \in Formats

\* the cases of encodeImageToBase64 (lines 128-148) that call an encoder
HasEncoder(type) == type \in {"jpeg", "png", "bmp", "tiff", "gif"}

OpaquePalette16 == {c \in Palette16 : c.A = 65535}

\* what decoding the re-encoded image can give: png, bmp and tiff keep
\* the pixels; jpeg and gif are lossy and opaque, giving some image of the
\* same size
Recodings(m, type) ==
    IF type \in {"jpeg", "gif"}
    THEN {[Rect |-> Normalize(m).Rect, At |-> f] :
              f \in [Points(Normalize(m).Rect) -> OpaquePalette16]}
    ELSE {Normalize(m)}

\* main.go 291
OutFileName(noExt) ==
    <<"o", "u", "t", "_", "_">> \o noExt \o <<".", "p", "n", "g">>

(***************************************************************************)
(* The pipeline driver main() (main.go 260-299), one action per stage.     *)
(***************************************************************************)
\* lines 261-273
ParseArgs ==
    /\ pc = "args"
    /\ stages' = Append(stages, "args")
    /\ IF Len(args) < 1
       THEN /\ logAndExit("image file path required")
            /\ UNCHANGED <<fileName, pipeThroughBase64>>
       ELSE /\ fileName' = args[1]
            /\ IF Len(args) > 1
               THEN LET b == ParseBool(ToLower(args[2]))
                    IN  IF b.err
                        THEN /\ logAndExit("second argument has to be true or false")
                             /\ UNCHANGED pipeThroughBase64
                        ELSE /\ pipeThroughBase64' = b.value
                             /\ GoOn("resolve")
               ELSE /\ UNCHANGED pipeThroughBase64
                    /\ GoOn("resolve")
    /\ UNCHANGED <<args, fileNameNoExt, imageType, fs, fs0, fsLog,
                   imageVars, colorVars, b64Vars>>

\* lines 275-277: fileExt[1:] of an empty fileExt is a slice out of range,
\* a run-time panic: the Go runtime reports it and exits with status 2
Resolve ==
    /\ pc = "resolve"
    /\ stages' = Append(stages, "resolve")
    /\ LET fileExt == Ext(fileName)
       IN  IF Len(fileExt) < 1
           THEN /\ stderr' = Append(stderr, "panic: slice bounds out of range")
                /\ exitCode' = <<2>>
                /\ pc' = "exited"
                /\ UNCHANGED <<imageType, fileNameNoExt>>
           ELSE /\ imageType' = getImageType(SliceFrom(fileExt, 1))
                /\ fileNameNoExt' = SubSeq(fileName, 1, Len(fileName) - Len(fileExt))
                /\ GoOn("load")
    /\ UNCHANGED <<args, fileName, pipeThroughBase64, fs, fs0, fsLog,
                   imageVars, colorVars, b64Vars>>

\* line 279, loadImage (lines 91-122): the file is opened before the type
\* is looked at
Load ==
    /\ pc = "load"
    /\ stages' = Append(stages, "load")
    /\ IF ~FileExists(fs, fileName)
       THEN /\ fsLog' = Append(fsLog, Sys("open failed", fileName))
            /\ logAndExit("error when opening file")
            /\ UNCHANGED imageData
       ELSE IF imageType = "unsupported"
       THEN /\ fsLog' = Append(fsLog, Sys("open", fileName))
            /\ logAndExit("error when loading image: unsupported type")
            /\ UNCHANGED imageData
       ELSE LET content == fs.files[fileName]
            IN  /\ fsLog' = fsLog \o <<Sys("open", fileName), Sys("read", fileName)>>
                /\ IF Decodes(imageType, content.format)
                   THEN /\ imageData' = content.image
                        /\ GoOn(IF pipeThroughBase64 THEN "encode64" ELSE "transform")
                   ELSE /\ logAndExit("error when decoding image from file")
                        /\ UNCHANGED imageData
    /\ UNCHANGED <<args, fileName, fileNameNoExt, imageType, pipeThroughBase64,
                   fs, fs0, ok, imageRGBA, again, colorVars, b64Vars>>

\* line 282, encodeImageToBase64 (lines 124-155).  An encoder can reject
\* an image without pixels (png.Encode does).
Encode64 ==
    /\ pc = "encode64"
    /\ stages' = Append(stages, "encode64")
    /\ IF ~HasEncoder(imageType)
       THEN /\ logAndExit("error when encoding image to base64: image type is not supported")
            /\ UNCHANGED data
       ELSE \E rejected \in {r \in BOOLEAN : (r => Empty(imageData.Rect))
                                             /\ (Empty(imageData.Rect) /\ imageType = "png" => r)} :
               IF rejected
               THEN /\ logAndExit("error when encoding image to base64")
                    /\ UNCHANGED data
               ELSE /\ data' = Bytes(DataImage \o TypeString(imageType) \o <<";">>
                                     \o Base64Marker)
                               \o EncodeToString(Signature(imageType))
                    /\ GoOn("decode64")
    /\ UNCHANGED <<args, fileName, fileNameNoExt, imageType, pipeThroughBase64,
                   fs, fs0, fsLog, imageVars, colorVars, handed>>

\* line 283, decodeImageFromBase64 (lines 157-210)
Decode64 ==
    /\ pc = "decode64"
    /\ stages' = Append(stages, "decode64")
    /\ LET type == DetectType(data)
           r == DecodeInPlace(data)
       IN  IF r.err
           THEN /\ logAndExit("error when decoding image from base64")
                /\ UNCHANGED <<handed, imageData>>
           ELSE \E k \in Slacks(r) :
                   LET buf == WithSlack(r.buf, r.n, k)
                   IN  /\ handed' = buf
                       /\ IF \E f \in SniffedFormats(buf) : Decodes(type, f)
                          THEN /\ imageData' \in Recodings(imageData, type)
                               /\ GoOn("transform")
                          ELSE /\ logAndExit("error when decoding image data")
                               /\ UNCHANGED imageData
    /\ UNCHANGED <<args, fileName, fileNameNoExt, imageType, pipeThroughBase64,
                   fs, fs0, fsLog, ok, imageRGBA, again, colorVars, data>>

\* a mutant of MainTransform: the result ok is not looked at
MainTransformUnchecked ==
    /\ pc = "transform"
    /\ stages' = Append(stages, "transform")
    /\ LET res == makeBackgroundTransparent(imageData)
       IN  /\ ok' = res.ok
           /\ imageRGBA' = res.imageRGBA
           /\ GoOn("create")
    /\ UNCHANGED <<args, fileName, fileNameNoExt, imageType, pipeThroughBase64,
                   fs, fs0, fsLog, imageData, again, colorVars, b64Vars>>

\* lines 286-289
MainTransform ==
    /\ pc = "transform"
    /\ stages' = Append(stages, "transform")
    /\ LET res == makeBackgroundTransparent(imageData)
       IN  /\ ok' = res.ok
           /\ imageRGBA' = res.imageRGBA
           /\ IF ~res.ok
              THEN logAndExit("image not converted - it was probably already transparent")
              ELSE GoOn("create")
    /\ UNCHANGED <<args, fileName, fileNameNoExt, imageType, pipeThroughBase64,
                   fs, fs0, fsLog, imageData, again, colorVars, b64Vars>>

\* lines 291-292, createFile (lines 76-89): a file found by os.Stat is
\* removed, then the file is created; either call can fail
CreateFile ==
    /\ pc = "create"
    /\ stages' = Append(stages, "create")
    /\ LET outFileName == OutFileName(fileNameNoExt)
           stat == Sys("stat", outFileName)
       IN  \E removed \in BOOLEAN, created \in {c \in BOOLEAN : c => Dir(outFileName) \in fs.dirs} :
              IF FileExists(fs, outFileName) /\ ~removed
              THEN /\ fsLog' = fsLog \o <<stat, Sys("remove failed", outFileName)>>
                   /\ logAndExit("Error deleting file")
                   /\ UNCHANGED fs
              ELSE LET log1 == IF FileExists(fs, outFileName)
                               THEN fsLog \o <<stat, Sys("remove", outFileName)>>
                               ELSE Append(fsLog, stat)
                       fs1 == WithoutFile(fs, outFileName)
                   IN  IF created
                       THEN /\ fs' = WithFile(fs1, outFileName, EmptyFile)
                            /\ fsLog' = Append(log1, Sys("create", outFileName))
                            /\ GoOn("encode")
                       ELSE /\ fs' = fs1
                            /\ fsLog' = Append(log1, Sys("create failed", outFileName))
                            /\ logAndExit("error creating file")
    /\ UNCHANGED <<args, fileName, fileNameNoExt, imageType, pipeThroughBase64,
                   fs0, imageVars, colorVars, b64Vars>>

\* lines 295-299: png.Encode rejects an image without pixels, and a write
\* can fail; main returning is exit status 0
EncodePNG ==
    /\ pc = "encode"
    /\ stages' = Append(stages, "encode")
    /\ LET outFileName == OutFileName(fileNameNoExt)
       IN  \E written \in {w \in BOOLEAN : w => ~Empty(imageRGBA.Rect)} :
              IF written
              THEN /\ fs' = WithFile(fs, outFileName,
                                     [format |-> "png",
                                      image |-> Normalize(AsImage(imageRGBA))])
                   /\ fsLog' = Append(fsLog, Sys("write", outFileName))
                   /\ pc' = "done"
                   /\ exitCode' = <<0>>
                   /\ UNCHANGED stderr
              ELSE /\ logAndExit("error when encoding image file")
                   /\ UNCHANGED <<fs, fsLog>>
    /\ UNCHANGED <<args, fileName, fileNameNoExt, imageType, pipeThroughBase64,
                   fs0, imageVars, colorVars, b64Vars>>

Next ==
    \/ ParseArgs
    \/ Resolve
    \/ Load
    \/ Encode64
    \/ Decode64
    \/ MainTransform
    \/ CreateFile
    \/ EncodePNG

(***************************************************************************)
(* Runs of the bounded model: command lines and file systems.              *)
(***************************************************************************)
FileNames ==
    {<<"a", ".", "p", "n", "g">>, <<"a", ".", "P", "n", "G">>,
     <<"a", ".", "j", "p", "g">>, <<"a", ".", "J", "P", "E", "G">>,
     <<"a", ".", "b", "m", "p">>, <<"a", ".", "t", "i", "f", "f">>,
     <<"a", ".", "g", "i", "f">>, <<"a", ".", "w", "e", "b", "p">>,
     <<"a", ".", "x", "y", "z">>, <<"a", ".">>, <<"a">>,
     <<"d", "/", "a", ".", "p", "n", "g">>, <<"d", ".", "x", "/", "a">>}

FlagArgs == {<<"t", "r", "u", "e">>, <<"T", "R", "U", "E">>, <<"f">>,
             <<"y", "e", "s">>}

\* the name whose file is given every image of Images that a PNG can hold
RichName == <<"a", ".", "p", "n", "g">>

ArgLists ==
    {<<>>} \cup {<<n>> : n \in FileNames}
           \cup {<<n, b>> : n \in FileNames, b \in FlagArgs}

ImageOf(r, colors) ==
    [Rect |-> r, At |-> [q \in Points(r) |-> colors[q[1] - r.x0 + 1]]]

PipeImages ==
    {ImageOf(Rectangle(0, 0, 1, 1), <<Grey16>>),
     ImageOf(Rectangle(0, 0, 2, 1), <<Grey16, Teal16>>),
     ImageOf(Rectangle(0, 0, 1, 1), <<Half16>>),
     ImageOf(Rectangle(0, 0, 1, 1), <<Deep16>>),
     ImageOf(Rectangle(0, 0, 0, 0), <<>>),
     ImageOf(Rectangle(1, 0, 2, 1), <<Grey16>>)}

\* what a file of a format can decode to: only a GIF frame has an offset,
\* only a BMP can have no pixels, JPEG and GIF pixels are opaque, and
\* only PNG and TIFF have 16-bit channels
CanHold(format, m) ==
    /\ (m.Rect.x0 # 0 \/ m.Rect.y0 # 0) => format = "gif"
    /\ Empty(m.Rect) => format = "bmp"
    /\ \A q \in Points(m.Rect) :
          /\ m.At[q].A # 65535 => format \in {"png", "tiff", "webp", "bmp"}
          /\ m.At[q].A % 257 # 0 => format \in {"png", "tiff"}

Contents(images) ==
    {c \in [format : Formats, image : images] : CanHold(c.format, c.image)}

\* the input file is absent, garbage or an encoded image
Inputs(a) ==
    {[present |-> FALSE, content |-> Garbage], [present |-> TRUE, content |-> Garbage]}
    \cup {[present |-> TRUE, content |-> c] : c \in Contents(PipeImages)}
    \cup IF a = <<RichName>>
         THEN {[present |-> TRUE, content |-> [format |-> "png", image |-> m]] :
                   m \in {i \in Images : CanHold("png", i)}}
         ELSE {}

\* the path the output goes to, as main computes it
OutputOf(name) ==
    OutFileName(SubSeq(name, 1, Len(name) - Len(Ext(name))))

MakeFS(name, input, old, outDir) ==
    LET out == OutputOf(name)
        dirs == {<<>>} \cup (IF input.present THEN {Dir(name)} ELSE {})
                       \cup (IF outDir THEN {Dir(out)} ELSE {})
        none == [q \in {} |-> Garbage]
        f1 == [files |-> none, dirs |-> dirs]
        f2 == IF input.present THEN WithFile(f1, name, input.content) ELSE f1
    IN  IF old /\ Dir(out) \in dirs THEN WithFile(f2, out, OldFile) ELSE f2

FileSystems(a) ==
    IF a = <<>> THEN {MakeFS(<<>>, [present |-> FALSE, content |-> Garbage], FALSE, FALSE)}
    ELSE {MakeFS(a[1], input, old, outDir) :
              input \in Inputs(a), old \in BOOLEAN, outDir \in BOOLEAN}

Init ==
    /\ pc = "args"
    /\ args \in ArgLists
    /\ fs \in FileSystems(args)
    /\ fs0 = fs
    /\ fileName = <<>>
    /\ fileNameNoExt = <<>>
    /\ imageType = "unset"
    /\ pipeThroughBase64 = FALSE
    /\ fsLog = <<>>
    /\ stderr = <<>>
    /\ exitCode = NoExit
    /\ stages = <<>>
    /\ ImageIdle /\ ColorIdle /\ B64Idle

Spec == Init /\ [][Next]_vars

(***************************************************************************)
(* Properties.                                                             *)
(***************************************************************************)
Last(q) == q[Len(q)]
IsPrefix(q, t) == Len(q) <= Len(t) /\ SubSeq(t, 1, Len(q)) = q
Absent(x, y) == Max(x, y) - Min(x, y)

\* the pixels of the input, converted to 8 bits
Converted(m, q) == RGBA8(m.At[q])
FullyOpaque(m) == \A q \in Points(m.Rect) : m.At[q].A = 65535
\* the image's first pixel, which is pixel (0,0) of an image at the origin
FirstPixel(m) == <<m.Rect.x0, m.Rect.y0>>
Transformed == pc \in {"transformed", "reapplied"}

\* C1: for every fully opaque input the transform returns applied = true
\* and an image of the same bounds in which a pixel has alpha 0 if it
\* matches (sameColor) the reference colour of the first pixel and alpha 255
\* otherwise, every pixel keeping the R, G and B of the converted input.
C1_OpaqueInputIsTransformed ==
    (Transformed /\ FullyOpaque(imageData)) =>
        /\ ok
        /\ imageRGBA # NilImage
        /\ imageRGBA.Rect = imageData.Rect
        /\ \A q \in Points(imageData.Rect) :
              LET in  == Converted(imageData, q)
                  ref == Converted(imageData, FirstPixel(imageData))
                  out == imageRGBA.Pix[q]
              IN  /\ out.A = (IF sameColor(in, ref) THEN 0 ELSE 255)
                  /\ out.R = in.R /\ out.G = in.G /\ out.B = in.B

\* the same statement for the inputs whose bounds start at (0,0), where
\* the transform does what C1 says
OpaqueInputAtOriginIsTransformed ==
    (FirstPixel(imageData) = ZP) => C1_OpaqueInputIsTransformed

\* C2: with dR, dG, dB the absolute channel differences, sameColor is
\* d <= 100 when dR = dG = dB = d and otherwise dR, dG, dB all <= 110; the
\* differences the code computes are the absolute ones, in 0 .. 255; alpha
\* plays no part.
C2_SameColorTolerance ==
    pc = "compared" =>
        LET dR == Absent(colorA.R, colorB.R)
            dG == Absent(colorA.G, colorB.G)
            dB == Absent(colorA.B, colorB.B)
        IN  /\ uint8Diff(colorA.R, colorB.R) = dR
            /\ uint8Diff(colorA.G, colorB.G) = dG
            /\ uint8Diff(colorA.B, colorB.B) = dB
            /\ same = (IF dR = dG /\ dG = dB
                       THEN dR <= 100
                       ELSE dR <= 110 /\ dG <= 110 /\ dB <= 110)

C2_Witness ==
    /\ pc = "compared"
    /\ same
    /\ colorA.A # colorB.A
    /\ Absent(colorA.R, colorB.R) = 100
    /\ Absent(colorA.G, colorB.G) = 100
    /\ Absent(colorA.B, colorB.B) = 100

NotApplied ==
    /\ ok = FALSE
    /\ imageRGBA = NilImage
    /\ pc = "exited"
    /\ exitCode \notin {NoExit, <<0>>}
    /\ stderr = <<"image not converted - it was probably already transparent">>
    /\ fs = fs0

\* C3 as stated: an input holding a pixel whose alpha is below the maximum
\* is not modified, the transform returns applied = false and no image,
\* and the driver ends in failure.
C3_NonOpaqueInputIsRefused ==
    ("transform" \in Range(stages)
        /\ \E q \in Points(imageData.Rect) : imageData.At[q].A < 65535)
    => NotApplied

\* C3 amended: the same for an input whose conversion to 8-bit RGBA holds a
\* pixel with alpha below 255.
C3_NonOpaqueConvertedInputIsRefused ==
    ("transform" \in Range(stages)
        /\ \E q \in Points(imageData.Rect) : Converted(imageData, q).A < 255)
    => NotApplied

C3_Witness ==
    /\ "transform" \in Range(stages)
    /\ \E q \in Points(imageData.Rect) : Converted(imageData, q).A < 255
    /\ \E q \in Points(imageData.Rect) : Converted(imageData, q).A = 255
    /\ pc = "exited"

\* C4 as stated: whenever the transform returned applied = true, its
\* result is not opaque, and applying the transform to it returns
\* applied = false and no image.
C4_TransformedTwice ==
    /\ (Transformed /\ ok) => ~Opaque(imageRGBA)
    /\ pc = "reapplied" => (~again.ok /\ again.imageRGBA = NilImage)

\* C4 amended: the same for every image with at least one pixel.
C4_NonEmptyTransformedTwice ==
    ~Empty(imageData.Rect) => C4_TransformedTwice

C4_Witness ==
    /\ pc = "reapplied"
    /\ Dx(imageData.Rect) * Dy(imageData.Rect) > 1
    /\ \E q \in Points(imageRGBA.Rect) : imageRGBA.Pix[q].A = 255
    /\ ~again.ok

\* the stages of a whole run, in the order of main()
Canon(roundTrip) ==
    <<"args", "resolve", "load">>
    \o (IF roundTrip THEN <<"encode64", "decode64">> ELSE <<>>)
    \o <<"transform", "create", "encode">>

\* the position that follows the stages run so far
Following(done, roundTrip) == (Canon(roundTrip) \o <<"done">>)[Len(done) + 1]

OutputTouched ==
    \E i \in DOMAIN fsLog :
        fsLog[i].op \in {"remove", "create", "write", "remove failed", "create failed"}

\* C5: the stages run in the order of main(): resolve, load, the optional
\* round trip, transform, create and encode.  A failed stage is the last
\* one: the process has then written one diagnostic, has a non-zero status
\* and takes no further step.  While nothing has failed nothing is written
\* to stderr, and success is status 0 after every stage.  When the failure
\* is in a stage before the output is created, applied = false included,
\* the file system is as it was and no call has touched the output file.
C5_LinearFailFast ==
    /\ IsPrefix(stages, Canon(pipeThroughBase64))
    /\ pc = "exited" =>
          /\ exitCode \notin {NoExit, <<0>>}
          /\ Len(stderr) = 1
          /\ ~ENABLED Next
    /\ pc \notin {"exited", "done"} =>
          /\ exitCode = NoExit
          /\ stderr = <<>>
          /\ pc = Following(stages, pipeThroughBase64)
    /\ pc = "done" =>
          /\ exitCode = <<0>>
          /\ stderr = <<>>
          /\ stages = Canon(pipeThroughBase64)
    /\ ("transform" \in Range(stages) /\ ~ok) => pc = "exited"
    /\ (pc = "exited" /\ Last(stages) \notin {"create", "encode"}) =>
          /\ fs = fs0
          /\ ~OutputTouched
    /\ "create" \notin Range(stages) => (fs = fs0 /\ ~OutputTouched)

C5_Witness ==
    /\ pc = "exited"
    /\ Last(stages) = "transform"
    /\ pipeThroughBase64
    /\ FileExists(fs, OutFileName(fileNameNoExt))

Supported ==
    {<<"j", "p", "g">>, <<"j", "p", "e", "g">>, <<"p", "n", "g">>, <<"b", "m", "p">>,
     <<"t", "i", "f", "f">>, <<"g", "i", "f">>, <<"w", "e", "b", "p">>}

\* the extension of a path without its dot and in lower case, <<>> when
\* the path has none
LowerExt(path) == ToLower(SliceFrom(Ext(path), 1))

InputAccessed ==
    \E i \in DOMAIN fsLog :
        fsLog[i].path = fileName /\ fsLog[i].op \in {"open", "open failed", "read"}

\* C6: a run on a path whose extension is not a supported one ends with
\* the unsupported-format diagnostic and no other, and has not opened or
\* read the input file.
C6_UnsupportedBeforeAnyAccess ==
    (pc \in {"exited", "done"} /\ "resolve" \in Range(stages)
        /\ LowerExt(fileName) \notin Supported) =>
        /\ pc = "exited"
        /\ stderr = <<"error when loading image: unsupported type">>
        /\ ~InputAccessed

StripExt(name) == SubSeq(name, 1, Len(name) - Len(Ext(name)))

\* out__<base name without directories and extension>.png
ExpectedOutput(path) ==
    <<"o", "u", "t", "_", "_">> \o StripExt(Base(path)) \o <<".", "p", "n", "g">>

\* C7: after a successful run the file out__<base name of the input
\* without directories and extension>.png of the working directory holds
\* the PNG of the transformed image, whatever was at that path before, and
\* it is the only file the run has changed.
C7_OutputPath ==
    pc = "done" =>
        LET out == ExpectedOutput(fileName)
        IN  /\ Dir(out) = <<>>
            /\ FileExists(fs, out)
            /\ fs.files[out] = [format |-> "png", image |-> Normalize(AsImage(imageRGBA))]
            /\ \A q \in DOMAIN fs.files \ {out} :
                  FileExists(fs0, q) /\ fs.files[q] = fs0.files[q]
            /\ \A q \in DOMAIN fs0.files : FileExists(fs, q)

\* what C7 says, for the inputs named without a directory
C7_OutputPathNoDirectory ==
    Dir(fileName) = <<>> => C7_OutputPath

ExpectedType(e) ==
    CASE e \in {<<"j", "p", "g">>, <<"j", "p", "e", "g">>} -> "jpeg"
      [] e = <<"p", "n", "g">> -> "png"
      [] e = <<"b", "m", "p">> -> "bmp"
      [] e = <<"t", "i", "f", "f">> -> "tiff"
      [] e = <<"g", "i", "f">> -> "gif"
      [] e = <<"w", "e", "b", "p">> -> "webp"
      [] OTHER -> "unsupported"

\* C8: resolution gives every file name a tag: the one of the table for
\* its lowercased extension, UNSUPPORTED for any other extension, an empty
\* or absent one included; it never ends the run.
C8_ResolutionIsTotal ==
    "resolve" \in Range(stages) =>
        /\ imageType = ExpectedType(LowerExt(fileName))
        /\ ~(pc = "exited" /\ Last(stages) = "resolve")

\* what C8 says, for the file names that have an extension
C8_ResolutionWithExtension ==
    Ext(fileName) # <<>> => C8_ResolutionIsTotal

WebpHeader == Bytes(DataImage \o TypeString("webp") \o <<";">> \o Base64Marker)

\* C9: encodeImageToBase64 returns a data URI of the image type only for
\* JPEG, PNG, BMP, TIFF and GIF and ends the run with the unsupported
\* diagnostic for WEBP; decodeImageFromBase64 takes a webp prefix for
\* WEBP.  A round-trip run on a WEBP input never reaches the transform or
\* the output: it fails, in the round-trip encoder once the file is
\* decoded, in the load stage otherwise.  A run whose type is UNSUPPORTED
\* fails in the load stage and never enters the encoder.
C9_WebpRoundTripFails ==
    /\ DetectType(WebpHeader) = "webp"
    /\ "decode64" \in Range(stages) \/ pc = "decode64" =>
          /\ imageType \in {"jpeg", "png", "bmp", "tiff", "gif"}
          /\ HasPrefix(data, Bytes(DataImage \o TypeString(imageType) \o <<";">>
                                   \o Base64Marker))
    /\ ("encode64" \in Range(stages) /\ imageType \in {"webp", "unsupported"}) =>
          /\ pc = "exited"
          /\ Last(stages) = "encode64"
          /\ stderr = <<"error when encoding image to base64: image type is not supported">>
    /\ (pipeThroughBase64 /\ imageType = "webp") =>
          /\ Range(stages) \cap {"decode64", "transform", "create", "encode"} = {}
          /\ pc \in {"load", "encode64", "exited"}
          /\ pc = "exited" => exitCode \notin {NoExit, <<0>>}
          /\ (pc = "exited" /\ imageData # NilImage) => Last(stages) = "encode64"
          /\ (pc = "exited" /\ imageData = NilImage) => Last(stages) = "load"
    /\ imageType = "unsupported" =>
          /\ "encode64" \notin Range(stages)
          /\ pc \in {"load", "exited"}
          /\ pc = "exited" => Last(stages) = "load"

C9_Witness ==
    /\ pc = "exited"
    /\ pipeThroughBase64
    /\ imageType = "webp"
    /\ Last(stages) = "encode64"
    /\ imageData # NilImage

====
